---- MODULE Spec2Model ----
(***************************************************************************)
(* A model of the HTTP/1.x client in src/src: an exchange connects         *)
(* (async_connection_factory.rs), serializes and writes the request        *)
(* (request.rs, platform/std_impl.rs) and reads the response               *)
(* (response.rs: status line, read_response_headers, read_response_body,   *)
(* read_chunked_body) as StdConnection::send_request drives them.          *)
(* HttpClient in lib.rs carries the same functions line for line.          *)
(*                                                                         *)
(* A byte is a one-character string; a Rust String / Vec<u8> is a sequence *)
(* of bytes.  The incoming side of the transport is a finite byte sequence *)
(* followed by close (end of stream); a read of the transport returns one  *)
(* piece of it, and the buffered reader of the exchange takes whole pieces.*)
(***************************************************************************)
EXTENDS Naturals, Sequences, FiniteSets, TLC

VARIABLES
    stream,      \* every byte the peer sends before it closes the stream
    pos,         \* number of bytes the buffered reader has handed out
    pc,          \* position of the exchange
    headers,     \* HeaderMap: name |-> the values stored under it
    body,        \* read_chunked_body's accumulating body vector
    chunk_size,  \* read_chunked_body's chunk_size for the chunk in progress
    path,        \* branches of read_response_body entered, in order
    ops,         \* reads issued on the reader since read_response_body began
    body_start,  \* reader position when read_response_body was called
    result,      \* what the exchange handed back to its caller
    peer,        \* how the peer composed the stream (its side of the exchange)
    request,     \* the http::Request the caller built
    conn,        \* the connection AsyncConnectionFactory::connect made, if any
    sent,        \* the operations issued on the outgoing side of the transport
    status,      \* Some((version, status)) once the status line has parsed
    faulty,      \* whether the transport may fail an operation in this exchange
    segments,    \* where the pieces end in which the transport hands over stream
    fetched      \* number of bytes the buffered reader has taken from the transport

vars == <<stream, pos, pc, headers, body, chunk_size, path, ops, body_start, result, peer,
          request, conn, sent, status, faulty, segments, fetched>>

-----------------------------------------------------------------------------
(* Bounds of the model *)

MaxLines == 3        \* header lines in a generated header block
MaxChunks == 2       \* chunks in a generated chunked body
MaxRequestHeaders == 2   \* header entries of a generated request

-----------------------------------------------------------------------------
(* Bytes and strings *)

CR == "\r"
LF == "\n"
SP == " "
TAB == "\t"
CRLF == <<CR, LF>>

LowerLetters == <<"a","b","c","d","e","f","g","h","i","j","k","l","m",
                  "n","o","p","q","r","s","t","u","v","w","x","y","z">>
UpperLetters == <<"A","B","C","D","E","F","G","H","I","J","K","L","M",
                  "N","O","P","Q","R","S","T","U","V","W","X","Y","Z">>
DecDigits == <<"0","1","2","3","4","5","6","7","8","9">>

Range(f) == {f[i] : i \in DOMAIN f}

IndexIn(c, f) == CHOOSE i \in DOMAIN f : f[i] = c

\* char::to_lowercase on ASCII
LowerChar(c) == IF c \in Range(UpperLetters) THEN LowerLetters[IndexIn(c, UpperLetters)] ELSE c

UpperChar(c) == IF c \in Range(LowerLetters) THEN UpperLetters[IndexIn(c, LowerLetters)] ELSE c

\* str::to_lowercase
ToLowercase(s) == [i \in 1..Len(s) |-> LowerChar(s[i])]

ToUppercase(s) == [i \in 1..Len(s) |-> UpperChar(s[i])]

\* value of a digit in the given radix, or -1 coded as radix (not a digit)
DigitValue(c, radix) ==
    IF c \in Range(DecDigits) THEN IndexIn(c, DecDigits) - 1
    ELSE IF LowerChar(c) \in Range(SubSeq(LowerLetters, 1, 6)) THEN 9 + IndexIn(LowerChar(c), LowerLetters)
    ELSE radix

IsDigit(c, radix) == DigitValue(c, radix) < radix

RECURSIVE DigitsValue(_, _)
DigitsValue(s, radix) ==
    IF s = <<>> THEN 0
    ELSE DigitsValue(SubSeq(s, 1, Len(s) - 1), radix) * radix + DigitValue(s[Len(s)], radix)

\* from_str_radix with the radix fixed at 10 whatever the caller asks for
FromStrRadix_Radix10(s, radix) ==
    LET digits == IF s # <<>> /\ s[1] = "+" THEN Tail(s) ELSE s
    IN  IF digits # <<>> /\ \A i \in 1..Len(digits) : IsDigit(digits[i], 10)
        THEN [ok |-> TRUE, val |-> DigitsValue(digits, 10)]
        ELSE [ok |-> FALSE, val |-> 0]

\* usize::from_str_radix: an optional '+', then one or more digits of the radix
FromStrRadix(s, radix) ==
    LET digits == IF s # <<>> /\ s[1] = "+" THEN Tail(s) ELSE s
    IN  IF digits # <<>> /\ \A i \in 1..Len(digits) : IsDigit(digits[i], radix)
        THEN [ok |-> TRUE, val |-> DigitsValue(digits, radix)]
        ELSE [ok |-> FALSE, val |-> 0]

\* str::parse::<usize>
ParseUsize(s) == FromStrRadix(s, 10)

IsWhitespace(c) == c \in {SP, TAB, CR, LF}

RECURSIVE TrimStart(_)
TrimStart(s) == IF s # <<>> /\ IsWhitespace(s[1]) THEN TrimStart(Tail(s)) ELSE s

RECURSIVE TrimEndMatches(_, _)
TrimEndMatches(s, set) ==
    IF s # <<>> /\ s[Len(s)] \in set THEN TrimEndMatches(SubSeq(s, 1, Len(s) - 1), set) ELSE s

\* str::trim
Trim(s) == TrimStart(TrimEndMatches(s, {SP, TAB, CR, LF}))

\* positions at which the two-byte pattern ": " starts
SepPositions(s) == {i \in 1..(Len(s) - 1) : s[i] = ":" /\ s[i + 1] = SP}

Min(S) == CHOOSE m \in S : \A n \in S : m <= n

\* str::split_once(": ")
SplitOnce(s) ==
    IF SepPositions(s) = {} THEN [found |-> FALSE, key |-> <<>>, value |-> <<>>]
    ELSE LET i == Min(SepPositions(s))
         IN  [found |-> TRUE, key |-> SubSeq(s, 1, i - 1), value |-> SubSeq(s, i + 2, Len(s))]

-----------------------------------------------------------------------------
(* The http crate's header types *)

\* token punctuation (apostrophe and backquote, also legal, are not bytes of the model)
TokenPunct == {"!", "#", "$", "%", "&", "*", "+", "-", ".", "^", "_", "|", "~"}

TokenChars == Range(LowerLetters) \cup Range(UpperLetters) \cup Range(DecDigits) \cup TokenPunct

\* HeaderName::from_str: non-empty, every byte a token character
ValidHeaderName(s) == s # <<>> /\ \A i \in 1..Len(s) : s[i] \in TokenChars

\* HeaderValue::from_str: no control byte other than TAB (bytes are ASCII here)
ValidHeaderValue(s) == \A i \in 1..Len(s) : s[i] \notin {CR, LF}

\* HeaderMap::new; the map holds, for each name, the values stored under it
EmptyHeaderMap == [n \in {} |-> <<>>]

\* HeaderMap::append in place of insert: earlier values are kept
Insert_Append(h, name, value) ==
    [n \in (DOMAIN h) \cup {name} |->
        IF n = name THEN (IF name \in DOMAIN h THEN h[n] ELSE <<>>) \o <<value>> ELSE h[n]]

\* HeaderMap::insert: the new value replaces every value stored under the name
Insert(h, name, value) == [n \in (DOMAIN h) \cup {name} |-> IF n = name THEN <<value>> ELSE h[n]]

\* HeaderMap::get(name).is_some()
Has(h, name) == name \in DOMAIN h

\* HeaderMap::get(name): the first value stored under the name
Get(h, name) == h[name][1]

ContentLengthName == <<"c","o","n","t","e","n","t","-","l","e","n","g","t","h">>
TransferEncodingName == <<"t","r","a","n","s","f","e","r","-","e","n","c","o","d","i","n","g">>
ConnectionName == <<"c","o","n","n","e","c","t","i","o","n">>
ChunkedValue == <<"c","h","u","n","k","e","d">>
UpgradeLower == <<"u","p","g","r","a","d","e">>
UpgradeTitle == <<"U","p","g","r","a","d","e">>

-----------------------------------------------------------------------------
(* The buffered reader *)

\* index of the last byte of the line that starts after position p:
\* the first LF after p, or the end of the stream when there is none
LineEnd(s, p) ==
    LET lfs == {i \in (p + 1)..Len(s) : s[i] = LF}
    IN  IF lfs = {} THEN Len(s) ELSE Min(lfs)

\* AsyncBufReadExt::read_line into an empty String (every byte of the model is
\* ASCII, so the line is always valid UTF-8; a failure of the transport under
\* the read is the action IoError)
ReadLine(s, p) == SubSeq(s, p + 1, LineEnd(s, p))

Remaining(s, p) == Len(s) - p

\* BufReader::new(&mut self.stream): the reader hands out bytes of its own
\* buffer; when the buffer is empty and bytes are asked for, it takes the next
\* piece the transport has, whole (the pieces of the model are far below the
\* 8 KiB of the buffer).  FetchTo(t): the bytes taken once t have been handed out
FetchTo(t) == IF fetched >= t THEN fetched ELSE Min({e \in segments : e >= t})

-----------------------------------------------------------------------------
(* Results handed to the caller *)

NoResult == [kind |-> "none", body |-> <<>>, err |-> ""]
OkResult(b) == [kind |-> "ok", body |-> b, err |-> ""]
ErrResult(e) == [kind |-> "err", body |-> <<>>, err |-> e]
\* todo!() panics with "not yet implemented"
PanicResult == [kind |-> "panic", body |-> <<>>, err |-> "not yet implemented"]

ErrInvalidHeaderName == "invalid HTTP header name"
ErrInvalidHeaderValue == "failed to parse header value"
ErrParseInt == "ParseIntError"
ErrUnexpectedEof == "UnexpectedEof"
ErrMissingCrlf == "Invalid chunked encoding: missing CRLF"

-----------------------------------------------------------------------------
(* read_response_headers: one action per way an iteration of the loop ends *)

\* the line the next read_line returns (an action binds it, and what it
\* computes from it, once, as \E x \in {e})
HeaderLine == ReadLine(stream, pos)

\* a header reader that also takes a lone LF line for the end of the block
HeadersEnd_AlsoOnBareLf ==
    /\ pc = "read_headers"
    /\ (Len(HeaderLine) = 0 \/ HeaderLine = CRLF \/ HeaderLine = <<LF>>)
    /\ pos' = pos + Len(HeaderLine)
    /\ pc' = "read_body"
    /\ body_start' = pos'
    /\ fetched' = FetchTo(pos')
    /\ UNCHANGED <<request, conn, sent, status, faulty, peer, stream, segments,
                    headers, body, chunk_size, path, ops, result>>

\* the loop condition fails: end of stream or the line "\r\n"; Ok(headers)
HeadersEnd ==
    /\ pc = "read_headers"
    /\ (Len(HeaderLine) = 0 \/ HeaderLine = CRLF)
    /\ pos' = pos + Len(HeaderLine)
    /\ pc' = "read_body"
    /\ body_start' = pos'
    /\ fetched' = FetchTo(pos')
    /\ UNCHANGED <<request, conn, sent, status, faulty, peer, stream, segments,
                    headers, body, chunk_size, path, ops, result>>

\* key and value of a line that split_once(": ") splits into kv
HeaderKey(kv) == ToLowercase(kv.key)

HeaderValueOf(kv) == TrimEndMatches(kv.value, {CR, LF})

\* the line splits and both parts are legal: insert and continue
HeaderInsert ==
    /\ pc = "read_headers"
    /\ \E line \in {HeaderLine} :
        /\ Len(line) # 0 /\ line # CRLF
        /\ \E kv \in {SplitOnce(line)} :
            /\ kv.found
            /\ \E key \in {HeaderKey(kv)}, value \in {HeaderValueOf(kv)} :
                /\ ValidHeaderName(key)
                /\ ValidHeaderValue(value)
                /\ headers' = Insert(headers, key, value)
        /\ pos' = pos + Len(line)
    /\ fetched' = FetchTo(pos')
    /\ UNCHANGED <<request, conn, sent, status, faulty, peer, stream, segments,
                    pc, body, chunk_size, path, ops, body_start, result>>

\* the line splits but HeaderName::from_str or HeaderValue::from_str fails
HeaderError ==
    /\ pc = "read_headers"
    /\ \E line \in {HeaderLine} :
        /\ Len(line) # 0 /\ line # CRLF
        /\ \E kv \in {SplitOnce(line)} :
            /\ kv.found
            /\ \E key \in {HeaderKey(kv)}, value \in {HeaderValueOf(kv)} :
                /\ ~(ValidHeaderName(key) /\ ValidHeaderValue(value))
                /\ result' = IF ~ValidHeaderName(key)
                             THEN ErrResult(ErrInvalidHeaderName)
                             ELSE ErrResult(ErrInvalidHeaderValue)
        /\ pos' = pos + Len(line)
    /\ pc' = "done"
    /\ fetched' = FetchTo(pos')
    /\ UNCHANGED <<request, conn, sent, status, faulty, peer, stream, segments,
                    headers, body, chunk_size, path, ops, body_start>>

\* a line without ": " treated as a parse failure
HeaderSkip_Fails ==
    /\ pc = "read_headers"
    /\ \E line \in {HeaderLine} :
        /\ Len(line) # 0 /\ line # CRLF
        /\ ~SplitOnce(line).found
        /\ pos' = pos + Len(line)
    /\ result' = ErrResult(ErrInvalidHeaderName)
    /\ pc' = "done"
    /\ fetched' = FetchTo(pos')
    /\ UNCHANGED <<request, conn, sent, status, faulty, peer, stream, segments,
                    headers, body, chunk_size, path, ops, body_start>>

\* a header loop that sees the same line again: the line is not consumed
HeaderSkip_NoProgress ==
    /\ pc = "read_headers"
    /\ \E line \in {HeaderLine} :
        /\ Len(line) # 0 /\ line # CRLF
        /\ ~SplitOnce(line).found
        /\ pos' = pos
    /\ fetched' = FetchTo(pos')
    /\ UNCHANGED <<request, conn, sent, status, faulty, peer, stream, segments,
                    pc, headers, body, chunk_size, path, ops, body_start, result>>

\* no ": " in the line: log::warn! and continue
HeaderSkip ==
    /\ pc = "read_headers"
    /\ \E line \in {HeaderLine} :
        /\ Len(line) # 0 /\ line # CRLF
        /\ ~SplitOnce(line).found
        /\ pos' = pos + Len(line)
    /\ fetched' = FetchTo(pos')
    /\ UNCHANGED <<request, conn, sent, status, faulty, peer, stream, segments,
                    pc, headers, body, chunk_size, path, ops, body_start, result>>

-----------------------------------------------------------------------------
(* read_response_body *)

\* the chain with the transfer-encoding test placed before the content-length test
SelectStrategy_TransferEncodingFirst(h) ==
    IF Has(h, TransferEncodingName) THEN
        IF Get(h, TransferEncodingName) = ChunkedValue THEN "chunked" ELSE "todo_transfer_encoding"
    ELSE IF Has(h, ContentLengthName) THEN "content_length"
    ELSE IF Has(h, ConnectionName) THEN
        IF Get(h, ConnectionName) = UpgradeLower \/ Get(h, ConnectionName) = UpgradeTitle
        THEN "upgrade" ELSE "todo_connection"
    ELSE "read_to_end"

\* the if / else-if chain of read_response_body
SelectStrategy(h) ==
    IF Has(h, ContentLengthName) THEN "content_length"
    ELSE IF Has(h, TransferEncodingName) THEN
        IF Get(h, TransferEncodingName) = ChunkedValue THEN "chunked" ELSE "todo_transfer_encoding"
    ELSE IF Has(h, ConnectionName) THEN
        IF Get(h, ConnectionName) = UpgradeLower \/ Get(h, ConnectionName) = UpgradeTitle
        THEN "upgrade" ELSE "todo_connection"
    ELSE "read_to_end"

\* AsyncReadExt::read_exact of n bytes at position p
ReadExact(s, p, n) ==
    IF Remaining(s, p) >= n
    THEN [ok |-> TRUE, bytes |-> SubSeq(s, p + 1, p + n), pos |-> p + n]
    ELSE [ok |-> FALSE, bytes |-> <<>>, pos |-> Len(s)]

\* content-length present: to_str, parse::<usize>, vec![0u8; n], then read_exact
\* (to_str cannot fail on ASCII bytes; the lengths of the model are small, so
\* the allocation of the buffer succeeds)
BodyContentLength ==
    /\ pc = "read_body"
    /\ SelectStrategy(headers) = "content_length"
    /\ path' = Append(path, "content_length")
    /\ LET n == ParseUsize(Get(headers, ContentLengthName))
           r == ReadExact(stream, pos, n.val)
       IN  IF ~n.ok
           THEN /\ result' = ErrResult(ErrParseInt)
                /\ UNCHANGED <<pos, ops>>
           ELSE /\ ops' = Append(ops, "read_exact")
                /\ pos' = r.pos
                /\ result' = IF r.ok THEN OkResult(r.bytes) ELSE ErrResult(ErrUnexpectedEof)
    /\ pc' = "done"
    /\ fetched' = FetchTo(pos')
    /\ UNCHANGED <<request, conn, sent, status, faulty, peer, stream, segments,
                    headers, body, chunk_size, body_start>>

\* transfer-encoding == "chunked": enter read_chunked_body
BodyChunked ==
    /\ pc = "read_body"
    /\ SelectStrategy(headers) = "chunked"
    /\ path' = Append(path, "chunked")
    /\ body' = <<>>
    /\ pc' = "chunk_size_line"
    /\ UNCHANGED <<request, conn, sent, status, faulty, peer, stream, segments, fetched,
                    pos, headers, chunk_size, ops, body_start, result>>

\* any other transfer-encoding: todo!()
BodyTodoTransferEncoding ==
    /\ pc = "read_body"
    /\ SelectStrategy(headers) = "todo_transfer_encoding"
    /\ path' = Append(path, "todo_transfer_encoding")
    /\ result' = PanicResult
    /\ pc' = "done"
    /\ UNCHANGED <<request, conn, sent, status, faulty, peer, stream, segments, fetched,
                    pos, headers, body, chunk_size, ops, body_start>>

\* the upgrade branch draining the reader before it answers
BodyUpgrade_ReadsToEnd ==
    /\ pc = "read_body"
    /\ SelectStrategy(headers) = "upgrade"
    /\ path' = Append(path, "upgrade")
    /\ ops' = Append(ops, "read_to_end")
    /\ pos' = Len(stream)
    /\ result' = OkResult(<<>>)
    /\ pc' = "done"
    /\ fetched' = FetchTo(pos')
    /\ UNCHANGED <<request, conn, sent, status, faulty, peer, stream, segments,
                    headers, body, chunk_size, body_start>>

\* connection is "upgrade" or "Upgrade": Ok(vec![])
BodyUpgrade ==
    /\ pc = "read_body"
    /\ SelectStrategy(headers) = "upgrade"
    /\ path' = Append(path, "upgrade")
    /\ result' = OkResult(<<>>)
    /\ pc' = "done"
    /\ UNCHANGED <<request, conn, sent, status, faulty, peer, stream, segments, fetched,
                    pos, headers, body, chunk_size, ops, body_start>>

\* any other connection value: todo!()
BodyTodoConnection ==
    /\ pc = "read_body"
    /\ SelectStrategy(headers) = "todo_connection"
    /\ path' = Append(path, "todo_connection")
    /\ result' = PanicResult
    /\ pc' = "done"
    /\ UNCHANGED <<request, conn, sent, status, faulty, peer, stream, segments, fetched,
                    pos, headers, body, chunk_size, ops, body_start>>

\* no framing header: read_to_end
BodyReadToEnd ==
    /\ pc = "read_body"
    /\ SelectStrategy(headers) = "read_to_end"
    /\ path' = Append(path, "read_to_end")
    /\ ops' = Append(ops, "read_to_end")
    /\ result' = OkResult(SubSeq(stream, pos + 1, Len(stream)))
    /\ pos' = Len(stream)
    /\ pc' = "done"
    /\ fetched' = FetchTo(pos')
    /\ UNCHANGED <<request, conn, sent, status, faulty, peer, stream, segments,
                    headers, body, chunk_size, body_start>>

-----------------------------------------------------------------------------
(* read_chunked_body: one action per await of the loop body *)

\* a decoder that also reads the line after the zero-size line
ChunkSizeLine_ReadsFinalCrlf ==
    /\ pc = "chunk_size_line"
    /\ \E line \in {ReadLine(stream, pos)} : \E size \in {Trim(line)} :
       \E n \in {FromStrRadix(size, 16)} :
           /\ ops' = Append(ops, "read_line")
           /\ IF ~n.ok
              THEN /\ result' = ErrResult(ErrParseInt)
                   /\ pos' = pos + Len(line)
                   /\ pc' = "done"
                   /\ UNCHANGED chunk_size
              ELSE IF n.val = 0
              THEN /\ result' = OkResult(body)
                   /\ pos' = pos + Len(line) + Len(ReadLine(stream, pos + Len(line)))
                   /\ pc' = "done"
                   /\ UNCHANGED chunk_size
              ELSE /\ chunk_size' = n.val
                   /\ pos' = pos + Len(line)
                   /\ pc' = "chunk_data"
                   /\ UNCHANGED result
    /\ fetched' = FetchTo(pos')
    /\ UNCHANGED <<request, conn, sent, status, faulty, peer, stream, segments,
                    headers, body, path, body_start>>

\* read_line, from_str_radix(trim, 16), and the test for the zero chunk
ChunkSizeLine ==
    /\ pc = "chunk_size_line"
    /\ \E line \in {ReadLine(stream, pos)} : \E size \in {Trim(line)} :
       \E n \in {FromStrRadix(size, 16)} :
           /\ pos' = pos + Len(line)
           /\ ops' = Append(ops, "read_line")
           /\ IF ~n.ok
              THEN /\ result' = ErrResult(ErrParseInt)
                   /\ pc' = "done"
                   /\ UNCHANGED chunk_size
              ELSE IF n.val = 0
              THEN /\ result' = OkResult(body)
                   /\ pc' = "done"
                   /\ UNCHANGED chunk_size
              ELSE /\ chunk_size' = n.val
                   /\ pc' = "chunk_data"
                   /\ UNCHANGED result
    /\ fetched' = FetchTo(pos')
    /\ UNCHANGED <<request, conn, sent, status, faulty, peer, stream, segments,
                    headers, body, path, body_start>>

\* read_exact(&mut chunk) and body.extend_from_slice(&chunk)
ChunkData ==
    /\ pc = "chunk_data"
    /\ LET r == ReadExact(stream, pos, chunk_size)
       IN  /\ pos' = r.pos
           /\ ops' = Append(ops, "read_exact")
           /\ IF r.ok
              THEN /\ body' = body \o r.bytes
                   /\ pc' = "chunk_crlf"
                   /\ UNCHANGED result
              ELSE /\ result' = ErrResult(ErrUnexpectedEof)
                   /\ pc' = "done"
                   /\ UNCHANGED body
    /\ fetched' = FetchTo(pos')
    /\ UNCHANGED <<request, conn, sent, status, faulty, peer, stream, segments,
                    headers, chunk_size, path, body_start>>

\* the two bytes after the chunk data read but not compared
ChunkCrlf_NoCheck ==
    /\ pc = "chunk_crlf"
    /\ LET r == ReadExact(stream, pos, 2)
       IN  /\ pos' = r.pos
           /\ ops' = Append(ops, "read_exact")
           /\ IF ~r.ok
              THEN /\ result' = ErrResult(ErrUnexpectedEof)
                   /\ pc' = "done"
              ELSE /\ pc' = "chunk_size_line"
                   /\ UNCHANGED result
    /\ fetched' = FetchTo(pos')
    /\ UNCHANGED <<request, conn, sent, status, faulty, peer, stream, segments,
                    headers, body, chunk_size, path, body_start>>

\* read_exact(&mut crlf) and the comparison with b"\r\n"
ChunkCrlf ==
    /\ pc = "chunk_crlf"
    /\ LET r == ReadExact(stream, pos, 2)
       IN  /\ pos' = r.pos
           /\ ops' = Append(ops, "read_exact")
           /\ IF ~r.ok
              THEN /\ result' = ErrResult(ErrUnexpectedEof)
                   /\ pc' = "done"
              ELSE IF r.bytes # CRLF
              THEN /\ result' = ErrResult(ErrMissingCrlf)
                   /\ pc' = "done"
              ELSE /\ pc' = "chunk_size_line"
                   /\ UNCHANGED result
    /\ fetched' = FetchTo(pos')
    /\ UNCHANGED <<request, conn, sent, status, faulty, peer, stream, segments,
                    headers, body, chunk_size, path, body_start>>

-----------------------------------------------------------------------------
(* serialize_http_request (request.rs) *)

\* a byte outside ASCII, as HeaderValue::from_bytes admits in a request header value
HighByte == "<80>"

VisiblePunct == TokenPunct \cup {":", "/", "?", "=", ";", ",", "(", ")", "<", ">", "@", "[", "]", "{", "}"}

VisibleAscii == Range(LowerLetters) \cup Range(UpperLetters) \cup Range(DecDigits) \cup VisiblePunct \cup {SP}

\* HeaderValue::to_str: every byte is visible ASCII (32..126) or TAB
ToStrOk(v) == \A i \in 1..Len(v) : v[i] \in VisibleAscii \cup {TAB}

\* Option<T>: None is the empty sequence, Some(x) is <<x>>
None == <<>>

Some(x) == <<x>>

\* a serializer without the default target
PathAndQuery_NoDefault(uri) == uri.path_and_query

\* Uri::path_and_query().map_or("/", |pq| pq.as_str()); as_str gives "/" for empty data
PathAndQuery(uri) == IF uri.path_and_query = <<>> THEN <<"/">> ELSE uri.path_and_query

\* a serializer that falls back to HTTP/1.0 for a version it does not name
VersionText_FallbackHttp10(version) ==
    CASE version = "HTTP_10" -> <<"H","T","T","P","/","1",".","0">>
      [] version = "HTTP_11" -> <<"H","T","T","P","/","1",".","1">>
      [] version = "HTTP_2" -> <<"H","T","T","P","/","2",".","0">>
      [] version = "HTTP_3" -> <<"H","T","T","P","/","3",".","0">>
      [] OTHER -> <<"H","T","T","P","/","1",".","0">>

\* the match on request.version(); the last arm is the default
VersionText(version) ==
    CASE version = "HTTP_10" -> <<"H","T","T","P","/","1",".","0">>
      [] version = "HTTP_11" -> <<"H","T","T","P","/","1",".","1">>
      [] version = "HTTP_2" -> <<"H","T","T","P","/","2",".","0">>
      [] version = "HTTP_3" -> <<"H","T","T","P","/","3",".","0">>
      [] OTHER -> <<"H","T","T","P","/","1",".","1">>

RequestLine(req) ==
    req.method \o <<SP>> \o PathAndQuery(req.uri) \o <<SP>> \o VersionText(req.version) \o CRLF

\* the loop over request.headers(): it pushes "name: value\r\n" per entry
RECURSIVE HeaderLines(_)
HeaderLines(hs) ==
    IF hs = <<>> THEN <<>>
    ELSE Head(hs).name \o <<":", SP>> \o Head(hs).value \o CRLF \o HeaderLines(Tail(hs))

\* a serializer that returns what it has built when a value cannot be rendered
SerializeHttpRequest_Partial(req) ==
    LET bad == {i \in 1..Len(req.headers) : ~ToStrOk(req.headers[i].value)}
        good == IF bad = {} THEN req.headers ELSE SubSeq(req.headers, 1, Min(bad) - 1)
    IN  [ok |-> TRUE, text |-> RequestLine(req) \o HeaderLines(good) \o CRLF]

\* Ok(String) or the to_str error of the first header value that is not visible ASCII
SerializeHttpRequest(req) ==
    IF \E i \in 1..Len(req.headers) : ~ToStrOk(req.headers[i].value)
    THEN [ok |-> FALSE, text |-> <<>>]
    ELSE [ok |-> TRUE, text |-> RequestLine(req) \o HeaderLines(req.headers) \o CRLF]

ErrToStr == "failed to convert header to a str"

-----------------------------------------------------------------------------
(* AsyncConnectionFactory (async_connection_factory.rs) *)

ErrNoAuthority == "No authority found in URI"
ErrNoScheme == "No scheme found in URI"
ErrUnsupportedScheme == "Unsupported URL scheme"

\* the closure given to unwrap_or_else: the port of the scheme, 0 for any other scheme
DefaultPort(scheme) ==
    CASE scheme = "http" -> 80
      [] scheme = "https" -> 443
      [] scheme = "ws" -> 80
      [] scheme = "wss" -> 443
      [] OTHER -> 0

\* extract_host_from_request: Ok((scheme, host, port)) or the error
ExtractHostFromRequest(uri) ==
    IF uri.authority = None THEN [ok |-> FALSE, err |-> ErrNoAuthority]
    ELSE IF uri.scheme = None THEN [ok |-> FALSE, err |-> ErrNoScheme]
    ELSE LET authority == uri.authority[1]
             scheme == uri.scheme[1]
             port == IF authority.port # None THEN authority.port[1] ELSE DefaultPort(scheme)
         IN  IF port = 0 THEN [ok |-> FALSE, err |-> ErrUnsupportedScheme]
             ELSE [ok |-> TRUE, scheme |-> scheme, host |-> authority.host, port |-> port]

\* the stream connect builds: TLS over TCP for https and wss, plain TCP otherwise
UsesTls(scheme) == scheme = "https" \/ scheme = "wss"

-----------------------------------------------------------------------------
(* read_response_status_line and parse_response_status_line *)

ErrStatusLine == "Failed to parse response status line"
ErrUnsupportedVersion == "Unsupported HTTP version"
ErrInvalidStatusCode == "invalid status code"

\* first and last positions of the maximal runs of non-whitespace bytes
TokenStarts(s) == {i \in 1..Len(s) : ~IsWhitespace(s[i]) /\ (i = 1 \/ IsWhitespace(s[i - 1]))}
TokenEnds(s) == {i \in 1..Len(s) : ~IsWhitespace(s[i]) /\ (i = Len(s) \/ IsWhitespace(s[i + 1]))}

\* the k-th smallest element of a set of numbers
Kth(S, k) == CHOOSE x \in S : Cardinality({y \in S : y <= x}) = k

\* str::split_whitespace: the maximal runs of non-whitespace bytes, in order
SplitWhitespace(s) ==
    [k \in 1..Cardinality(TokenStarts(s)) |-> SubSeq(s, Kth(TokenStarts(s), k), Kth(TokenEnds(s), k))]

U16Max == 65535

\* str::parse::<u16>: the decimal parser with the range of u16
ParseU16(s) ==
    LET r == FromStrRadix(s, 10)
    IN  IF r.ok /\ r.val <= U16Max THEN r ELSE [ok |-> FALSE, val |-> 0]

\* a status-code constructor that does not check the lower limit
StatusCodeFromU16_NoLowerLimit(src) == src < 1000

\* StatusCode::from_u16: Ok for 100..=999
StatusCodeFromU16(src) == src >= 100 /\ src < 1000

SupportedVersions == { <<"H","T","T","P","/","1",".","0">>, <<"H","T","T","P","/","1",".","1">>, <<"H","T","T","P","/","2",".","0">> }

\* parse_response_status_line after the split: the checks on the parts
StatusOfParts(parts) ==
    IF Len(parts) < 2 THEN [ok |-> FALSE, err |-> ErrStatusLine]
    ELSE IF parts[1] \notin SupportedVersions
         THEN [ok |-> FALSE, err |-> ErrUnsupportedVersion]
    ELSE IF ~ParseU16(parts[2]).ok THEN [ok |-> FALSE, err |-> ErrParseInt]
    ELSE IF ~StatusCodeFromU16(ParseU16(parts[2]).val)
         THEN [ok |-> FALSE, err |-> ErrInvalidStatusCode]
    ELSE [ok |-> TRUE, version |-> parts[1], code |-> ParseU16(parts[2]).val]

\* parse_response_status_line: Ok((version, status)) or the error
ParseResponseStatusLine(line) == StatusOfParts(SplitWhitespace(line))

-----------------------------------------------------------------------------
(* AsyncConnectionFactory::connect and the write side of                   *)
(* StdConnection::send_request: one action per await                       *)

ErrIo == "transport error"

\* extract_host_from_request succeeds: resolve, connect, TLS for https and wss
Connect ==
    /\ pc = "connect"
    /\ LET r == ExtractHostFromRequest(request.uri)
       IN  /\ r.ok
           /\ conn' = Some([scheme |-> r.scheme, host |-> r.host, port |-> r.port,
                            tls |-> UsesTls(r.scheme)])
    /\ pc' = "serialize"
    /\ UNCHANGED <<request, sent, status, faulty, peer, stream, segments, fetched, pos,
                    headers, body, chunk_size, path, ops, body_start, result>>

\* extract_host_from_request fails: nothing is connected
ConnectError ==
    /\ pc = "connect"
    /\ LET r == ExtractHostFromRequest(request.uri)
       IN  /\ ~r.ok
           /\ result' = ErrResult(r.err)
    /\ pc' = "done"
    /\ UNCHANGED <<request, conn, sent, status, faulty, peer, stream, segments, fetched, pos,
                    headers, body, chunk_size, path, ops, body_start>>

\* serialize_http_request(request)? fails: send_request returns before any write
SerializeError ==
    /\ pc = "serialize"
    /\ ~SerializeHttpRequest(request).ok
    /\ result' = ErrResult(ErrToStr)
    /\ pc' = "done"
    /\ UNCHANGED <<request, conn, sent, status, faulty, peer, stream, segments, fetched, pos,
                    headers, body, chunk_size, path, ops, body_start>>

\* serialize_http_request(request)? then write_all of the serialized bytes
WriteHead ==
    /\ pc = "serialize"
    /\ SerializeHttpRequest(request).ok
    /\ sent' = Append(sent, [op |-> "write_all", data |-> SerializeHttpRequest(request).text])
    /\ pc' = "flush_head"
    /\ UNCHANGED <<request, conn, status, faulty, peer, stream, segments, fetched, pos,
                    headers, body, chunk_size, path, ops, body_start, result>>

\* a client that writes the body whether or not it is empty
FlushHead_AlwaysWritesBody ==
    /\ pc = "flush_head"
    /\ sent' = Append(sent, [op |-> "flush", data |-> <<>>])
    /\ pc' = "write_body"
    /\ UNCHANGED <<request, conn, status, faulty, peer, stream, segments, fetched, pos,
                    headers, body, chunk_size, path, ops, body_start, result>>

\* flush; then the test for a non-empty body
FlushHead ==
    /\ pc = "flush_head"
    /\ sent' = Append(sent, [op |-> "flush", data |-> <<>>])
    /\ pc' = IF request.body # <<>> THEN "write_body" ELSE "read_status"
    /\ UNCHANGED <<request, conn, status, faulty, peer, stream, segments, fetched, pos,
                    headers, body, chunk_size, path, ops, body_start, result>>

\* write_all of the body
WriteBody ==
    /\ pc = "write_body"
    /\ sent' = Append(sent, [op |-> "write_all", data |-> request.body])
    /\ pc' = "flush_body"
    /\ UNCHANGED <<request, conn, status, faulty, peer, stream, segments, fetched, pos,
                    headers, body, chunk_size, path, ops, body_start, result>>

\* the flush after the body
FlushBody ==
    /\ pc = "flush_body"
    /\ sent' = Append(sent, [op |-> "flush", data |-> <<>>])
    /\ pc' = "read_status"
    /\ UNCHANGED <<request, conn, status, faulty, peer, stream, segments, fetched, pos,
                    headers, body, chunk_size, path, ops, body_start, result>>

\* read_response_status_line, then parse_response_status_line succeeds
StatusLineOk ==
    /\ pc = "read_status"
    /\ \E line \in {ReadLine(stream, pos)} : \E parts \in {SplitWhitespace(line)} :
       \E r \in {StatusOfParts(parts)} :
           /\ r.ok
           /\ pos' = pos + Len(line)
           /\ status' = Some([version |-> r.version, code |-> r.code])
    /\ pc' = "read_headers"
    /\ fetched' = FetchTo(pos')
    /\ UNCHANGED <<request, conn, sent, faulty, peer, stream, segments,
                    headers, body, chunk_size, path, ops, body_start, result>>

\* read_response_status_line, then parse_response_status_line fails
StatusLineError ==
    /\ pc = "read_status"
    /\ \E line \in {ReadLine(stream, pos)} : \E parts \in {SplitWhitespace(line)} :
       \E r \in {StatusOfParts(parts)} :
           /\ ~r.ok
           /\ pos' = pos + Len(line)
           /\ result' = ErrResult(r.err)
    /\ pc' = "done"
    /\ fetched' = FetchTo(pos')
    /\ UNCHANGED <<request, conn, sent, status, faulty, peer, stream, segments,
                    headers, body, chunk_size, path, ops, body_start>>

\* the exchange is at an await on the transport
TransportPending ==
    \/ pc = "connect" /\ ExtractHostFromRequest(request.uri).ok
    \/ pc = "serialize" /\ SerializeHttpRequest(request).ok
    \/ pc \in {"flush_head", "write_body", "flush_body", "read_status", "read_headers",
               "chunk_size_line", "chunk_data", "chunk_crlf"}
    \/ /\ pc = "read_body"
       /\ \/ SelectStrategy(headers) = "read_to_end"
          \/ /\ SelectStrategy(headers) = "content_length"
             /\ ParseUsize(Get(headers, ContentLengthName)).ok

\* a client that swallows the failure and runs the operation again
IoError_Retries ==
    /\ faulty
    /\ TransportPending
    /\ result' = ErrResult(ErrIo)
    /\ UNCHANGED <<request, conn, sent, status, faulty, peer, stream, segments, fetched, pos, pc,
                    headers, body, chunk_size, path, ops, body_start>>

\* the pending operation returns Err: the ? operator returns it from the exchange
IoError ==
    /\ faulty
    /\ TransportPending
    /\ result' = ErrResult(ErrIo)
    /\ pc' = "done"
    /\ UNCHANGED <<request, conn, sent, status, faulty, peer, stream, segments, fetched, pos,
                    headers, body, chunk_size, path, ops, body_start>>

-----------------------------------------------------------------------------
(* The peer: the byte streams a server may send *)

RECURSIVE Flatten(_)
Flatten(ss) == IF ss = <<>> THEN <<>> ELSE Head(ss) \o Flatten(Tail(ss))

SeqsUpTo(S, n) == UNION {[1..k -> S] : k \in 0..n}

Prefixes(s) == {SubSeq(s, 1, k) : k \in 0..Len(s)}

\* header lines as servers send them, well formed and not
LinePool ==
    { <<"X","-","A",":"," ","1",":"," ","0",CR,CR,LF>>,  \* mixed-case name, separator in the value, doubled CR
      <<"x","-","a",":"," ","2",CR,LF>>,                 \* the same name again
      <<"x","-","b",":"," ",LF>>,                        \* bare LF line end, empty value
      <<"x","-","a",":","4",CR,LF>>,                     \* no space after the colon
      <<LF>>,                                            \* a lone LF
      <<"x"," ","b",":"," ","1",CR,LF>>,                 \* illegal name
      <<"x","-","c",":"," ","a",CR,"b",CR,LF>> }         \* illegal value

\* what follows the header lines: close, an unfinished line, or the blank line and a body
BlockTails ==
    { <<>>,
      <<"x","-","z",":"," ","9">>,
      CRLF \o <<"h","i">> }

HeaderInputs ==
    { [bytes |-> Flatten(ls) \o t, peer |-> [kind |-> "lines", chunks |-> <<>>]] :
        ls \in SeqsUpTo(LinePool, MaxLines), t \in BlockTails }

\* framing headers: absent (the empty sequence of lines) or one line with a value
NameLine(name, value) == name \o <<":", SP>> \o value \o CRLF

ContentLengthLines ==
    { <<>> } \cup
    { NameLine(<<"C","o","n","t","e","n","t","-","L","e","n","g","t","h">>, v) :
        v \in { <<"0">>, <<"2">>, <<"0","2">>, <<"+","2">>, <<"x">>, <<"2",SP>>, <<>> } }

TransferEncodingLines ==
    { <<>> } \cup
    { NameLine(<<"T","r","a","n","s","f","e","r","-","E","n","c","o","d","i","n","g">>, v) :
        v \in { ChunkedValue, <<"C","h","u","n","k","e","d">>, <<"g","z","i","p">> } }

ConnectionLines ==
    { <<>> } \cup
    { NameLine(<<"C","o","n","n","e","c","t","i","o","n">>, v) :
        v \in { UpgradeLower, UpgradeTitle, ToUppercase(UpgradeLower),
                <<"c","l","o","s","e">>, <<"k","e","e","p","-","a","l","i","v","e">> } }

FramingBodies ==
    { <<>>,
      <<"h">>,
      <<"h","i">>,
      <<"h","i","!">>,
      <<"1",CR,LF,"x",CR,LF,"0",CR,LF,CR,LF>>,
      <<"2",CR,LF,"h","i",CR,LF,"0",CR,LF>> }

FramingInputs ==
    { [bytes |-> hs \o CRLF \o b, peer |-> [kind |-> "framing", chunks |-> <<>>]] :
        hs \in { cl \o te \o co : cl \in ContentLengthLines, te \in TransferEncodingLines,
                                  co \in ConnectionLines }
               \cup
               { co \o te \o cl : cl \in ContentLengthLines, te \in TransferEncodingLines,
                                  co \in ConnectionLines },
        b \in FramingBodies }

\* protocol-upgrade answers: the head of a 101 response, then what the server
\* sends next on the upgraded stream (the start of its first frame)
SwitchingProtocols == <<"H","T","T","P","/","1",".","1",SP,"1","0","1",SP,"S","w","i","t","c","h","i","n","g",SP,"P","r","o","t","o","c","o","l","s",CR,LF>>

UpgradeHeads ==
    { SwitchingProtocols \o up \o NameLine(<<"C","o","n","n","e","c","t","i","o","n">>, v) \o CRLF :
        up \in { <<>>, NameLine(<<"U","p","g","r","a","d","e">>, <<"w","e","b","s","o","c","k","e","t">>) },
        v \in { UpgradeLower, UpgradeTitle } }

FirstFrames == { <<>>, <<"f">>, <<"f","r">> }

\* where a piece handed over by the transport may end, around the blank line
PieceEnds(head) == { Len(SwitchingProtocols), Len(head) - 1, Len(head), Len(head) + 1 }

UpgradeInputs ==
    UNION { { [bytes |-> h \o fr,
               segs |-> {e \in S : e < Len(h \o fr)} \cup {Len(h \o fr)},
               peer |-> [kind |-> "upgrade", chunks |-> <<>>]] :
                fr \in FirstFrames, S \in SUBSET PieceEnds(h) } :
            h \in UpgradeHeads }

\* chunked bodies: each chunk is its data and the two bytes sent after the data
ChunkDataPool ==
    { <<"x">>,
      <<"0",CR,LF>>,
      <<"a","b","c","d","e",CR,LF,"f","g","h","i">> }

ChunkTrailPool == { CRLF, <<LF,CR>>, <<CR,"x">> }

ChunkPool == { [data |-> d, trail |-> t] : d \in ChunkDataPool, t \in ChunkTrailPool }

\* the size line of a chunk of n < 16 bytes: lower-case hex, or upper-case with a leading zero
HexSize(n, style) ==
    IF style = "lower"
    THEN <<IF n < 10 THEN DecDigits[n + 1] ELSE LowerLetters[n - 9]>>
    ELSE <<"0", IF n < 10 THEN DecDigits[n + 1] ELSE UpperLetters[n - 9]>>

RECURSIVE EncodeChunks(_, _)
EncodeChunks(cs, style) ==
    IF cs = <<>> THEN <<>>
    ELSE HexSize(Len(Head(cs).data), style) \o CRLF \o Head(cs).data \o Head(cs).trail
         \o EncodeChunks(Tail(cs), style)

\* how the size lines are written, and the zero-size chunk line with what follows it
ChunkEndings ==
    { [style |-> "lower", last |-> <<"0",CR,LF>>],
      [style |-> "upper0", last |-> <<"0",CR,LF,CR,LF>>],
      [style |-> "lower", last |-> <<"0","0",CR,LF,"x","-","t",":"," ","1",CR,LF,CR,LF>>] }

ChunkedHeader == NameLine(<<"T","r","a","n","s","f","e","r","-","E","n","c","o","d","i","n","g">>, ChunkedValue) \o CRLF

ChunkedInputs ==
    { [bytes |-> ChunkedHeader \o EncodeChunks(cs, e.style) \o e.last,
       peer |-> [kind |-> "chunked", chunks |-> cs]] :
        cs \in SeqsUpTo(ChunkPool, MaxChunks), e \in ChunkEndings }

WellFormedChunks(cs) == \A i \in 1..Len(cs) : cs[i].trail = CRLF

\* a well-formed chunked body cut short by the peer closing the stream
CutInputs ==
    UNION { { [bytes |-> ChunkedHeader \o b, peer |-> [kind |-> "cut", chunks |-> cs]] :
                b \in Prefixes(EncodeChunks(cs, st) \o <<"0",CR,LF>>)
                      \ {EncodeChunks(cs, st) \o <<"0",CR,LF>>} } :
            cs \in {c \in SeqsUpTo(ChunkPool, MaxChunks) : WellFormedChunks(c)},
            st \in {"lower", "upper0"} }

\* size lines the grammar does not allow
OddSizeLineInputs ==
    { [bytes |-> ChunkedHeader \o b, peer |-> [kind |-> "odd", chunks |-> <<>>]] :
        b \in { <<"+","1",CR,LF,"x",CR,LF,"0",CR,LF>>,
                <<SP,"1",TAB,CR,LF,"x",CR,LF,"0",CR,LF>>,
                <<"1",";","e",CR,LF,"x",CR,LF,"0",CR,LF>>,
                <<"1",LF,"x",CR,LF,"0",LF>>,
                <<"g",CR,LF>>,
                <<CR,LF>>,
                <<"-","0",CR,LF>> } }

-----------------------------------------------------------------------------
(* The caller: the requests it may build, and the status lines of the peer *)

Uri(scheme, authority, pq) == [scheme |-> scheme, authority |-> authority, path_and_query |-> pq]

Authority(host, port) == Some([host |-> host, port |-> port])

\* GET http://example.com/ with a host header and no body
DefaultRequest ==
    [method |-> <<"G","E","T">>,
     uri |-> Uri(Some("http"), Authority("example.com", None), <<"/">>),
     version |-> "HTTP_11",
     headers |-> << [name |-> <<"h","o","s","t">>, value |-> <<"e","x","a","m","p","l","e",".","c","o","m">>] >>,
     body |-> <<>>]

\* the variants of http::Version
Versions == {"HTTP_09", "HTTP_10", "HTTP_11", "HTTP_2", "HTTP_3"}

\* header entries of a request: names as the HeaderMap stores them (lower case)
RequestHeaderPool ==
    { [name |-> <<"h","o","s","t">>, value |-> <<"a",".","i","o">>],
      [name |-> <<"x","-","a">>, value |-> <<"1",SP,"2">>],
      [name |-> <<"x","-","b">>, value |-> <<"a", HighByte>>],
      [name |-> <<"x","-","c">>, value |-> <<>>],
      [name |-> <<"x","-","d">>, value |-> <<SP,"v">>] }

\* the HeaderMap iterates the values of one name together
Grouped(hs) ==
    \A i, k \in 1..Len(hs) :
        i < k /\ hs[i].name = hs[k].name => \A j \in i..k : hs[j].name = hs[i].name

RequestHeaders == {hs \in SeqsUpTo(RequestHeaderPool, MaxRequestHeaders) : Grouped(hs)}

Requests ==
    { [method |-> m, uri |-> Uri(Some("http"), Authority("a.io", None), pq),
       version |-> v, headers |-> hs, body |-> <<>>] :
        m \in { <<"G","E","T">>, <<"P","O","S","T">> }, pq \in { <<>>, <<"/","p","?","q","=","1">> },
        v \in Versions, hs \in RequestHeaders }

\* request URIs: absolute with and without a port, authority form, origin form
UriPool ==
    { Uri(Some(s), Authority("a.io", p), <<"/">>) :
        s \in {"http", "https", "ws", "wss", "ftp"}, p \in {None, Some(8080), Some(0)} }
    \cup { Uri(None, Authority("a.io", Some(80)), <<>>), Uri(None, None, <<"/","p">>) }

StatusLineOk200 == <<"H","T","T","P","/","1",".","1",SP,"2","0","0",SP,"O","K",CR,LF>>

\* a short response with a content-length body
PlainResponse == StatusLineOk200 \o <<"C","o","n","t","e","n","t","-","L","e","n","g","t","h",":",SP,"2",CR,LF,CR,LF,"h","i">>

ResponsePool ==
    { PlainResponse,
      StatusLineOk200 \o <<"T","r","a","n","s","f","e","r","-","E","n","c","o","d","i","n","g",":",SP,"c","h","u","n","k","e","d",CR,LF,CR,LF,"2",CR,LF,"h","i",CR,LF,"0",CR,LF,CR,LF>>,
      StatusLineOk200 \o <<CR,LF,"h","i">>,
      StatusLineOk200 \o <<"C","o","n","n","e","c","t","i","o","n",":",SP,"u","p","g","r","a","d","e",CR,LF,CR,LF>> }

RequestBodies == { <<>>, <<"h","i">>, <<"a",CR,LF>> }

VersionTokens == SupportedVersions \cup { <<"H","T","T","P","/","3",".","0">>, <<"h","t","t","p","/","1",".","1">>, <<"H","T","T","P","/","1",".","1","x">> }

CodeTokens ==
    { <<"2","0","0">>, <<"1","0","0">>, <<"5","9","9">>, <<"6","0","0">>, <<"9","9","9">>, <<"9","9">>, <<"1","0","0","0">>, <<"+","2","0","0">>, <<"0","2","0","0">>,
      <<"2","x","0">>, <<"6","5","5","3","6">>, <<"-","1">>, <<>> }

ReasonPhrases == { <<>>, <<SP,"O","K">>, <<SP,"N","o","t",SP,"F","o","u","n","d">> }

LineEnds == { CRLF, <<LF>>, <<>> }

StatusLines ==
    { v \o <<SP>> \o c \o r \o e :
        v \in VersionTokens, c \in CodeTokens, r \in ReasonPhrases, e \in LineEnds }
    \cup { <<>>, CRLF, <<"H","T","T","P","/","1",".","1",CR,LF>>, <<"H","T","T","P","/","1",".","1">>, <<SP,"H","T","T","P","/","1",".","1",SP,SP,"2","0","0",TAB,"O","K",CR,LF>>,
           <<"H","T","T","P","/","1",".","1",TAB,"2","0","4",CR,LF>>, <<"2","0","0",SP,"H","T","T","P","/","1",".","1",CR,LF>> }

\* the block after the status line
AfterStatusLine(l) == IF l # <<>> /\ l[Len(l)] = LF THEN <<CR,LF,"h","i">> ELSE <<>>

-----------------------------------------------------------------------------
(* The exchange *)

Start ==
    /\ pos = 0
    /\ pc = "connect"
    /\ conn = None
    /\ sent = <<>>
    /\ status = None
    /\ headers = EmptyHeaderMap
    /\ body = <<>>
    /\ chunk_size = 0
    /\ path = <<>>
    /\ ops = <<>>
    /\ body_start = 0
    /\ result = NoResult
    /\ fetched = 0

\* the caller builds req; the peer answers with bytes and closes; the
\* transport hands the bytes over in pieces that end at the positions segs
ExchangeIn(req, bytes, p, f, segs) ==
    /\ request = req
    /\ stream = bytes
    /\ peer = p
    /\ faulty = f
    /\ segments = segs

\* the whole answer arrives in one piece
Exchange(req, bytes, p, f) == ExchangeIn(req, bytes, p, f, {Len(bytes)})

Init ==
    /\ \/ \E in \in HeaderInputs :
             Exchange(DefaultRequest, StatusLineOk200 \o in.bytes, in.peer, FALSE)
       \/ \E in \in FramingInputs :
             Exchange(DefaultRequest, StatusLineOk200 \o in.bytes, in.peer, FALSE)
       \/ \E in \in ChunkedInputs :
             Exchange(DefaultRequest, StatusLineOk200 \o in.bytes, in.peer, FALSE)
       \/ \E in \in CutInputs :
             Exchange(DefaultRequest, StatusLineOk200 \o in.bytes, in.peer, FALSE)
       \/ \E in \in OddSizeLineInputs :
             Exchange(DefaultRequest, StatusLineOk200 \o in.bytes, in.peer, FALSE)
       \/ \E req \in Requests :
             Exchange(req, PlainResponse, [kind |-> "request", chunks |-> <<>>], FALSE)
       \/ \E u \in UriPool :
             Exchange([DefaultRequest EXCEPT !.uri = u], PlainResponse,
                      [kind |-> "uri", chunks |-> <<>>], FALSE)
       \/ \E l \in StatusLines :
             Exchange(DefaultRequest, l \o AfterStatusLine(l),
                      [kind |-> "status", chunks |-> <<>>], FALSE)
       \/ \E b \in RequestBodies, r \in ResponsePool, f \in BOOLEAN :
             Exchange([DefaultRequest EXCEPT !.body = b], r,
                      [kind |-> "transport", chunks |-> <<>>], f)
       \/ \E in \in UpgradeInputs :
             ExchangeIn(DefaultRequest, in.bytes, in.peer, FALSE, in.segs)
    /\ Start

Next ==
    \/ Connect
    \/ ConnectError
    \/ SerializeError
    \/ WriteHead
    \/ FlushHead
    \/ WriteBody
    \/ FlushBody
    \/ StatusLineOk
    \/ StatusLineError
    \/ IoError
    \/ HeadersEnd
    \/ HeaderInsert
    \/ HeaderError
    \/ HeaderSkip
    \/ BodyContentLength
    \/ BodyChunked
    \/ BodyTodoTransferEncoding
    \/ BodyUpgrade
    \/ BodyTodoConnection
    \/ BodyReadToEnd
    \/ ChunkSizeLine
    \/ ChunkData
    \/ ChunkCrlf

Spec == Init /\ [][Next]_vars

\* the executor polls the future of the exchange until it completes, and every
\* await on a stream that is finite and then closes returns
FairSpec == Spec /\ WF_vars(Next)

-----------------------------------------------------------------------------
(* Vocabulary of the properties *)

Done == pc = "done"

InChunkedDecoder == pc \in {"chunk_size_line", "chunk_data", "chunk_crlf"}

\* the bytes on the reader when read_response_body was called
BodyBytes == SubSeq(stream, body_start + 1, Len(stream))

\* a string of one or more decimal digits
IsUnsignedDecimal(s) == s # <<>> /\ \A i \in 1..Len(s) : s[i] \in Range(DecDigits)

\* the lines of a byte sequence, each ending with its LF (the last one may lack it)
RECURSIVE LinesOf(_)
LinesOf(s) ==
    IF s = <<>> THEN <<>>
    ELSE LET e == LineEnd(s, 0) IN <<SubSeq(s, 1, e)>> \o LinesOf(SubSeq(s, e + 1, Len(s)))

\* the reader position after the status line
HeaderStart == LineEnd(stream, 0)

\* the lines read_response_headers has consumed so far
ConsumedLines == LinesOf(SubSeq(stream, HeaderStart + 1, pos))

InHeaderPhase == pc \in {"read_headers", "read_body"}

-----------------------------------------------------------------------------
(* C1: for every header collection read_response_body enters exactly one   *)
(* branch, the first that matches in the order content-length,             *)
(* transfer-encoding, connection, read-to-end; with content-length and     *)
(* transfer-encoding: chunked both present the body is read by             *)
(* content-length and the chunked decoder is never entered; the branch is  *)
(* a function of the header set.                                           *)
C1_FirstMatchSelectsOneStrategy ==
    /\ Len(path) <= 1
    /\ InHeaderPhase => path = <<>>
    /\ InChunkedDecoder \/ (Done /\ result.kind \in {"ok", "panic"}) => Len(path) = 1
    /\ path # <<>> =>
        /\ Has(headers, ContentLengthName) => path = <<"content_length">>
        /\ ~Has(headers, ContentLengthName) /\ Has(headers, TransferEncodingName) =>
              path[1] \in {"chunked", "todo_transfer_encoding"}
        /\ ~Has(headers, ContentLengthName) /\ ~Has(headers, TransferEncodingName)
              /\ Has(headers, ConnectionName) =>
              path[1] \in {"upgrade", "todo_connection"}
        /\ ~Has(headers, ContentLengthName) /\ ~Has(headers, TransferEncodingName)
              /\ ~Has(headers, ConnectionName) =>
              path = <<"read_to_end">>
        /\ Has(headers, ContentLengthName) =>
              ~InChunkedDecoder /\ "read_line" \notin Range(ops)

\* content-length and transfer-encoding: chunked both present, body read by length
C1_Witness ==
    /\ Done
    /\ Has(headers, ContentLengthName)
    /\ Has(headers, TransferEncodingName)
    /\ Get(headers, TransferEncodingName) = ChunkedValue
    /\ path = <<"content_length">>
    /\ result.kind = "ok"
    /\ result.body = <<"1", CR>>

(* C2: with content-length the decimal N, a body is returned iff at least  *)
(* N bytes remain; it is the next N bytes and N bytes are consumed;        *)
(* otherwise (too few bytes, or a value that is not an unsigned decimal)   *)
(* an error and no body is returned.                                       *)
C2_ContentLengthFraming ==
    Done /\ path = <<"content_length">> =>
        LET v == Get(headers, ContentLengthName)
            n == DigitsValue(v, 10)
        IN  IF IsUnsignedDecimal(v) /\ Len(BodyBytes) >= n
            THEN /\ result = OkResult(SubSeq(BodyBytes, 1, n))
                 /\ pos = body_start + n
            ELSE /\ result.kind = "err"
                 /\ result.body = <<>>

(* C3: for a well-formed chunked stream read_chunked_body returns the      *)
(* concatenation of the chunk data in stream order, and nothing else.      *)
C3_ChunkedBodyIsConcatenation ==
    Done /\ peer.kind = "chunked" /\ WellFormedChunks(peer.chunks) =>
        result = OkResult(Flatten([i \in 1..Len(peer.chunks) |-> peer.chunks[i].data]))

\* two chunks decoded, one of them with a size written with a hex letter
C3_Witness ==
    /\ Done
    /\ peer.kind = "chunked" /\ WellFormedChunks(peer.chunks)
    /\ Len(peer.chunks) = 2
    /\ Len(peer.chunks[1].data) = 11
    /\ peer.chunks[2].data = <<"0", CR, LF>>
    /\ result.kind = "ok"
    /\ Len(result.body) = 14

(* C4: if the two bytes after the data of a nonzero chunk are not CR LF,   *)
(* decoding fails with the invalid-chunked-encoding error and no body is   *)
(* returned, not even the chunks already decoded.                          *)
C4_BadChunkTrailerFails ==
    Done /\ peer.kind = "chunked" /\ ~WellFormedChunks(peer.chunks) =>
        result = ErrResult(ErrMissingCrlf)

\* the first chunk was decoded into the buffer, the second has a bad trailer
C4_Witness ==
    /\ Done
    /\ peer.kind = "chunked"
    /\ Len(peer.chunks) = 2
    /\ peer.chunks[1].trail = CRLF
    /\ peer.chunks[2].trail # CRLF
    /\ body = peer.chunks[1].data \o peer.chunks[2].data
    /\ result = ErrResult(ErrMissingCrlf)

(* C5: content-length absent and transfer-encoding present with a value    *)
(* other than exactly "chunked": an explicit unsupported error value is    *)
(* returned to the caller; no empty body, no abort.                        *)
C5_OtherTransferEncodingIsError ==
    Done /\ ~Has(headers, ContentLengthName) /\ Has(headers, TransferEncodingName)
         /\ Get(headers, TransferEncodingName) # ChunkedValue
         /\ path # <<>> =>
        result.kind = "err"

(* C6: every exchange ends by returning a Response or an error value; in   *)
(* particular with no content-length, no transfer-encoding and a           *)
(* connection header that is not an upgrade (close, keep-alive) it ends    *)
(* with a body or a returned error.                                        *)
C6_NonUpgradeConnectionReturns ==
    Done /\ ~Has(headers, ContentLengthName) /\ ~Has(headers, TransferEncodingName)
         /\ Has(headers, ConnectionName)
         /\ ToLowercase(Get(headers, ConnectionName)) # UpgradeLower
         /\ path # <<>> =>
        result.kind \in {"ok", "err"}

(* C7: content-length and transfer-encoding absent and connection equal to *)
(* "upgrade" in any letter case: an empty body is returned.                *)
C7_UpgradeAnyCaseIsEmptyBody ==
    Done /\ ~Has(headers, ContentLengthName) /\ ~Has(headers, TransferEncodingName)
         /\ Has(headers, ConnectionName)
         /\ ToLowercase(Get(headers, ConnectionName)) = UpgradeLower
         /\ path # <<>> =>
        result = OkResult(<<>>)

(* C8: on the upgrade path the empty body is returned without any read on  *)
(* the reader: its position is the same after the call as before it.       *)
C8_UpgradeReadsNothing ==
    Done /\ path = <<"upgrade">> =>
        /\ result = OkResult(<<>>)
        /\ ops = <<>>
        /\ pos = body_start

\* the upgrade branch answered while bytes were waiting on the reader
C8_Witness ==
    /\ Done
    /\ path = <<"upgrade">>
    /\ result = OkResult(<<>>)
    /\ pos = body_start
    /\ Len(stream) > pos

\* the lines consumed so far that split_once(": ") splits
SplitIndices(ls) == {i \in 1..Len(ls) : SplitOnce(ls[i]).found}

Max(S) == CHOOSE m \in S : \A n \in S : m >= n

(* C9: a line before the terminator without the separator ": " is skipped  *)
(* without an error: reading continues, and every header parsed from the   *)
(* lines before and after it is in the returned collection.                *)
C9_MalformedLineIsSkipped ==
    LET ls == ConsumedLines
    IN  /\ InHeaderPhase =>
              /\ result = NoResult
              /\ \A i \in SplitIndices(ls) : Has(headers, ToLowercase(SplitOnce(ls[i]).key))
        /\ Done /\ status # None /\ path = <<>> /\ result.err # ErrIo =>
              Len(ls) \in SplitIndices(ls)

\* headers returned with a header before and another after a line that has no ": "
C9_Witness ==
    /\ pc = "read_body"
    /\ LET ls == ConsumedLines
       IN  \E i, j, k \in 1..Len(ls) :
              /\ i < j /\ j < k
              /\ i \in SplitIndices(ls) /\ k \in SplitIndices(ls)
              /\ j \notin SplitIndices(ls) /\ ls[j] # CRLF /\ ls[j] # <<LF>>
              /\ ToLowercase(SplitOnce(ls[i]).key) # ToLowercase(SplitOnce(ls[k]).key)
              /\ Has(headers, ToLowercase(SplitOnce(ls[i]).key))
              /\ Has(headers, ToLowercase(SplitOnce(ls[k]).key))

\* v is s without its trailing CR and LF bytes
IsWithoutTrailingCrLf(v, s) ==
    /\ Len(v) <= Len(s)
    /\ v = SubSeq(s, 1, Len(v))
    /\ \A i \in (Len(v) + 1)..Len(s) : s[i] \in {CR, LF}
    /\ v # <<>> => v[Len(v)] \notin {CR, LF}

(* C10: each header is stored under its lowercased name with trailing      *)
(* CR/LF removed from the value; several lines whose names are equal       *)
(* ignoring case leave exactly one entry, holding the value of the last.   *)
C10_LowercasedLastValueWins ==
    InHeaderPhase =>
        LET ls == ConsumedLines
            name(i) == ToLowercase(SplitOnce(ls[i]).key)
        IN  /\ DOMAIN headers = {name(i) : i \in SplitIndices(ls)}
            /\ \A n \in DOMAIN headers :
                  /\ n = ToLowercase(n)
                  /\ Len(headers[n]) = 1
                  /\ LET last == Max({i \in SplitIndices(ls) : name(i) = n})
                     IN  IsWithoutTrailingCrLf(headers[n][1], SplitOnce(ls[last]).value)

\* X-A: 1 then x-a: 2 were read; the one entry x-a holds 2
C10_Witness ==
    /\ pc = "read_body"
    /\ LET ls == ConsumedLines
       IN  /\ Len(ls) >= 2
           /\ SplitOnce(ls[1]).found /\ SplitOnce(ls[1]).key = <<"X", "-", "A">>
           /\ SplitOnce(ls[2]).found /\ SplitOnce(ls[2]).key = <<"x", "-", "a">>
           /\ SplitOnce(ls[1]).value # SplitOnce(ls[2]).value
    /\ headers[<<"x", "-", "a">>] = << <<"2">> >>

\* name and value of a header line by the HTTP grammar: the name ends at the
\* first colon, the value is the rest without the CRLF and the whitespace around it
ColonPositions(l) == {i \in 1..Len(l) : l[i] = ":"}

FieldName(l) == SubSeq(l, 1, Min(ColonPositions(l)) - 1)

RECURSIVE TrimOws(_)
TrimOws(s) ==
    IF s # <<>> /\ s[1] \in {SP, TAB} THEN TrimOws(Tail(s))
    ELSE IF s # <<>> /\ s[Len(s)] \in {SP, TAB} THEN TrimOws(SubSeq(s, 1, Len(s) - 1))
    ELSE s

FieldValue(l) == TrimOws(SubSeq(l, Min(ColonPositions(l)) + 1, Len(l) - 2))

\* field-name ":" OWS field-value OWS CRLF
IsValidHttpHeaderLine(l) ==
    /\ Len(l) >= 2 /\ SubSeq(l, Len(l) - 1, Len(l)) = CRLF
    /\ ColonPositions(l) # {}
    /\ ValidHeaderName(FieldName(l))
    /\ ValidHeaderValue(FieldValue(l))

(* C11: every header line that is valid HTTP (legal name, colon, optional   *)
(* whitespace, legal possibly empty value, CRLF) and appears before the     *)
(* terminator is represented in the returned collection, lines with no      *)
(* space after the colon such as Name:value included.                       *)
C11_NoValidHeaderDropped ==
    pc = "read_body" =>
        \A i \in 1..Len(ConsumedLines) :
            IsValidHttpHeaderLine(ConsumedLines[i]) =>
                Has(headers, ToLowercase(FieldName(ConsumedLines[i])))

(* C12: read_response_headers stops at, and only at, the first line equal   *)
(* to CR LF or at end of stream and consumes no byte after it, so the body  *)
(* reader starts at the byte after the blank line; a lone LF does not end   *)
(* the block; a stream that closes before any blank line yields the headers *)
(* read so far as a success.                                                *)
C12_HeadersEndAtBlankLineOrEof ==
    LET ls == ConsumedLines
    IN  /\ pc = "read_headers" => \A i \in 1..Len(ls) : ls[i] # CRLF
        /\ pc = "read_body" =>
              /\ result = NoResult
              /\ pos = body_start
              /\ \A i \in 1..(Len(ls) - 1) : ls[i] # CRLF
              /\ \/ ls # <<>> /\ ls[Len(ls)] = CRLF
                 \/ pos = Len(stream) /\ \A i \in 1..Len(ls) : ls[i] # CRLF

\* headers returned at the blank line, after a lone LF line, with a body still unread
C12_Witness ==
    /\ pc = "read_body"
    /\ LET ls == ConsumedLines
       IN  /\ Len(ls) >= 3
           /\ \E i \in 1..(Len(ls) - 1) : ls[i] = <<LF>>
           /\ ls[Len(ls)] = CRLF
    /\ pos < Len(stream)
    /\ headers # EmptyHeaderMap

\* the stream closed before any blank line: the headers read so far are returned
C12_WitnessClosed ==
    /\ pc = "read_body"
    /\ \A i \in 1..Len(ConsumedLines) : ConsumedLines[i] # CRLF
    /\ pos = Len(stream)
    /\ headers # EmptyHeaderMap

\* the transport operations of the write side, in the order the claim gives them
WriteAll(data) == [op |-> "write_all", data |-> data]

Flush == [op |-> "flush", data |-> <<>>]

ExpectedSent ==
    IF ~SerializeHttpRequest(request).ok THEN <<>>
    ELSE <<WriteAll(SerializeHttpRequest(request).text), Flush>>
         \o (IF request.body # <<>> THEN <<WriteAll(request.body), Flush>> ELSE <<>>)

IsPrefix(s, t) == Len(s) <= Len(t) /\ s = SubSeq(t, 1, Len(s))

ReadingPcs == {"read_status", "read_headers", "read_body", "chunk_size_line", "chunk_data", "chunk_crlf"}

(* C13: in one exchange the transport operations occur in this order: write *)
(* the whole serialized header block, flush, then (iff the request body is  *)
(* non-empty) write the body and flush, then read the status line, then the *)
(* header block, then the body; no read is issued before the last write has *)
(* been flushed, and each step starts only after the previous one           *)
(* succeeded.                                                               *)
C13_WriteFlushThenReadInOrder ==
    /\ IsPrefix(sent, ExpectedSent)
    /\ pc \in ReadingPcs \/ pos > 0 => sent = ExpectedSent /\ sent # <<>>
    /\ sent # <<>> => conn # None
    /\ pc \in {"read_headers", "read_body"} \/ headers # EmptyHeaderMap \/ path # <<>> =>
          status # None /\ pos >= HeaderStart
    /\ pc = "read_status" => pos = 0 /\ status = None
    /\ pc = "read_headers" => path = <<>>
    /\ path # <<>> => body_start >= HeaderStart /\ pos >= body_start
    /\ pc # "done" => result = NoResult

\* a request with a body got its response: both write and flush pairs, then the reads
C13_Witness ==
    /\ Done /\ result.kind = "ok"
    /\ request.body # <<>>
    /\ sent = <<WriteAll(SerializeHttpRequest(request).text), Flush, WriteAll(request.body), Flush>>
    /\ status # None /\ headers # EmptyHeaderMap /\ path # <<>> /\ pos = Len(stream)

\* the exchange ended on a failed transport operation
TransportFailed == result.kind = "err" /\ result.err \in {ErrIo, ErrUnexpectedEof}

(* C14: if any transport operation of an exchange fails (a write, a flush   *)
(* or a read, a chunk cut short by stream close included) the exchange      *)
(* returns that error at once: no later transport operation is performed,   *)
(* the failed operation is not retried, and no Response is returned.        *)
C14_TransportFailureEndsExchange ==
    /\ result.err = ErrIo => faulty
    /\ TransportFailed =>
          /\ Done
          /\ result.body = <<>>
          /\ IsPrefix(sent, ExpectedSent)
          /\ sent # ExpectedSent => pos = 0 /\ status = None
          /\ status = None => headers = EmptyHeaderMap /\ path = <<>>
          /\ path = <<>> => ops = <<>>
    /\ result.err = ErrUnexpectedEof =>
          /\ pos = Len(stream)
          /\ ops # <<>> /\ ops[Len(ops)] = "read_exact"

\* the transport failed inside a chunked body, after a chunk had been decoded
C14_Witness ==
    /\ Done /\ result = ErrResult(ErrIo)
    /\ path = <<"chunked">> /\ body # <<>>
    /\ pos < Len(stream)

\* the transport failed at the flush of the request body: nothing was read
C14_WitnessWrite ==
    /\ Done /\ result = ErrResult(ErrIo)
    /\ sent = <<WriteAll(SerializeHttpRequest(request).text), Flush, WriteAll(request.body)>>
    /\ pos = 0

\* the version token the claim gives for each variant of http::Version
ClaimedVersionToken ==
    "HTTP_10" :> <<"H","T","T","P","/","1",".","0">> @@ "HTTP_11" :> <<"H","T","T","P","/","1",".","1">> @@ "HTTP_2" :> <<"H","T","T","P","/","2",".","0">>
    @@ "HTTP_3" :> <<"H","T","T","P","/","3",".","0">> @@ "HTTP_09" :> <<"H","T","T","P","/","1",".","1">>

AllValuesVisible(req) == \A i \in 1..Len(req.headers) : ToStrOk(req.headers[i].value)

(* C15: for every request whose header values are visible ASCII,            *)
(* serialize_http_request returns exactly METHOD SP path-and-query SP       *)
(* VERSION CRLF, then one name: value CRLF line per header entry in the     *)
(* iteration order of the header map, then one blank CRLF; path-and-query   *)
(* is "/" when the URI has none, VERSION is HTTP/1.0, HTTP/1.1, HTTP/2.0 or *)
(* HTTP/3.0 for the matching version and HTTP/1.1 for any other; no body    *)
(* bytes and no synthesized Content-Length appear in the output.            *)
C15_SerializedFormIsExact ==
    /\ pc = "serialize" /\ AllValuesVisible(request) => SerializeHttpRequest(request).ok
    /\ pc = "flush_head" =>
          LET out == sent[1].data
              ls == LinesOf(out)
              n == Len(request.headers)
              target == IF request.uri.path_and_query = <<>> THEN <<"/">>
                        ELSE request.uri.path_and_query
          IN  /\ AllValuesVisible(request)
              /\ Len(ls) = n + 2
              /\ ls[1] = request.method \o <<SP>> \o target \o <<SP>>
                         \o ClaimedVersionToken[request.version] \o <<CR, LF>>
              /\ \A i \in 1..n :
                    ls[i + 1] = request.headers[i].name \o <<":", SP>>
                                \o request.headers[i].value \o <<CR, LF>>
              /\ ls[n + 2] = <<CR, LF>>

\* an HTTP/0.9 request with two headers and no path was serialized and written
C15_Witness ==
    /\ pc = "flush_head"
    /\ request.version = "HTTP_09"
    /\ request.uri.path_and_query = <<>>
    /\ Len(request.headers) = 2
    /\ request.headers[1].name # request.headers[2].name

\* an HTTP/1.x request parser written from the grammar: request-line =
\* method SP request-target SP HTTP-version CRLF, then field lines
\* field-name ":" OWS field-value OWS CRLF up to the empty line
RECURSIVE SplitOnSp(_)
SplitOnSp(s) ==
    LET sps == {i \in 1..Len(s) : s[i] = SP}
    IN  IF sps = {} THEN <<s>>
        ELSE <<SubSeq(s, 1, Min(sps) - 1)>> \o SplitOnSp(SubSeq(s, Min(sps) + 1, Len(s)))

EndsWithCrLf(l) == Len(l) >= 2 /\ SubSeq(l, Len(l) - 1, Len(l)) = <<CR, LF>>

ParseRequestHead(bytes) ==
    LET ls == LinesOf(bytes)
        n == Len(ls)
        parts == SplitOnSp(SubSeq(ls[1], 1, Len(ls[1]) - 2))
        wellFormed ==
            /\ n >= 2
            /\ \A i \in 1..n : EndsWithCrLf(ls[i])
            /\ ls[n] = <<CR, LF>>
            /\ \A i \in 2..(n - 1) : IsValidHttpHeaderLine(ls[i])
            /\ Len(parts) = 3 /\ parts[1] # <<>> /\ parts[2] # <<>>
    IN  IF ~wellFormed THEN [ok |-> FALSE]
        ELSE [ok |-> TRUE, method |-> parts[1], path |-> parts[2], version |-> parts[3],
              headers |-> {<<ToLowercase(FieldName(ls[i])), FieldValue(ls[i])>> : i \in 2..(n - 1)}]

\* the name of each variant of http::Version on the wire
VersionName ==
    "HTTP_09" :> <<"H","T","T","P","/","0",".","9">> @@ "HTTP_10" :> <<"H","T","T","P","/","1",".","0">> @@ "HTTP_11" :> <<"H","T","T","P","/","1",".","1">>
    @@ "HTTP_2" :> <<"H","T","T","P","/","2",".","0">> @@ "HTTP_3" :> <<"H","T","T","P","/","3",".","0">>

\* what the round trip has to reproduce (Uri::path is "/" when the URI has none)
RequestHead(req) ==
    [ok |-> TRUE, method |-> req.method,
     path |-> IF req.uri.path_and_query = <<>> THEN <<"/">> ELSE req.uri.path_and_query,
     version |-> VersionName[req.version],
     headers |-> {<<req.headers[i].name, req.headers[i].value>> : i \in 1..Len(req.headers)}]

(* C16 as the spec states it: for any request, the output of                *)
(* serialize_http_request parsed by an independent compliant HTTP/1.x       *)
(* request parser reproduces the same method, path, version and header set. *)
C16_RoundTripAnyRequest ==
    pc = "flush_head" => ParseRequestHead(sent[1].data) = RequestHead(request)

NamedVersions == {"HTTP_10", "HTTP_11", "HTTP_2", "HTTP_3"}

NoOuterWhitespace(v) == TrimOws(v) = v

(* C16 amended: for any request whose version is HTTP/1.0, HTTP/1.1,        *)
(* HTTP/2.0 or HTTP/3.0 and whose header values are visible ASCII without   *)
(* leading or trailing whitespace, the serialized output parsed by an       *)
(* independent compliant parser reproduces the same method, path, version   *)
(* and header set.                                                          *)
C16_RoundTripNamedVersionsPlainValues ==
    /\ pc = "flush_head"
    /\ request.version \in NamedVersions
    /\ \A i \in 1..Len(request.headers) : NoOuterWhitespace(request.headers[i].value)
    => ParseRequestHead(sent[1].data) = RequestHead(request)

\* an HTTP/3.0 request without a path, with an empty value and a value holding a space
C16_Witness ==
    /\ pc = "flush_head"
    /\ request.version = "HTTP_3"
    /\ request.uri.path_and_query = <<>>
    /\ Len(request.headers) = 2
    /\ request.headers[1].value = <<>>
    /\ request.headers[2].value = <<"1",SP,"2">>
    /\ ParseRequestHead(sent[1].data) = RequestHead(request)

(* C17: if any header value of the request cannot be rendered as a          *)
(* visible-ASCII string, serialize_http_request returns an error and no     *)
(* partial string, and the exchange that called it returns that error       *)
(* before writing a single byte to the transport.                           *)
C17_UnrenderableValueWritesNothing ==
    ~AllValuesVisible(request) =>
        /\ sent = <<>> /\ pos = 0
        /\ pc \in {"connect", "serialize", "done"}
        /\ pc = "serialize" =>
              ~SerializeHttpRequest(request).ok /\ SerializeHttpRequest(request).text = <<>>
        /\ Done /\ conn # None => result = ErrResult(ErrToStr)

\* the second header value has a byte outside ASCII: the error came back, nothing was written
C17_Witness ==
    /\ Done /\ result = ErrResult(ErrToStr)
    /\ conn # None /\ sent = <<>>
    /\ Len(request.headers) = 2
    /\ ToStrOk(request.headers[1].value)
    /\ ~ToStrOk(request.headers[2].value)

\* the status line has been read and parsed (with or without success)
StatusLineProcessed ==
    /\ sent # <<>> /\ sent = ExpectedSent
    /\ pc # "read_status"
    /\ result.err # ErrIo

\* the line read_response_status_line returned
StatusLine == SubSeq(stream, 1, HeaderStart)

(* C18: parse_response_status_line succeeds if and only if the line has at  *)
(* least two whitespace-separated tokens, the first is exactly one of       *)
(* HTTP/1.0, HTTP/1.1, HTTP/2.0 and the second is an unsigned decimal       *)
(* accepted as a status code; on success it returns the matching version    *)
(* and code, whatever reason phrase follows; a line with fewer than two     *)
(* tokens (the empty line of a closed stream included) fails, and any other *)
(* version token, HTTP/3.0 included, fails with the unsupported-version     *)
(* error.                                                                   *)
C18_StatusLineParsesIffWellFormed ==
    StatusLineProcessed =>
        LET toks == SplitWhitespace(StatusLine)
            accepted ==
                /\ Len(toks) >= 2
                /\ toks[1] \in { <<"H","T","T","P","/","1",".","0">>, <<"H","T","T","P","/","1",".","1">>, <<"H","T","T","P","/","2",".","0">> }
                /\ IsUnsignedDecimal(toks[2])
                /\ DigitsValue(toks[2], 10) \in 100..999
        IN  /\ status # None <=> accepted
            /\ status # None =>
                  status[1].version = toks[1] /\ status[1].code = DigitsValue(toks[2], 10)
            /\ Len(toks) < 2 => result = ErrResult(ErrStatusLine)
            /\ Len(toks) >= 2 /\ toks[1] \notin { <<"H","T","T","P","/","1",".","0">>, <<"H","T","T","P","/","1",".","1">>, <<"H","T","T","P","/","2",".","0">> } =>
                  result = ErrResult(ErrUnsupportedVersion)

\* the second token of the status line is a decimal whose value is outside lo..hi
CodeTokenOutside(lo, hi) ==
    LET toks == SplitWhitespace(StatusLine)
    IN  /\ Len(toks) >= 2
        /\ IsUnsignedDecimal(toks[2])
        /\ DigitsValue(toks[2], 10) \notin lo..hi

(* C19 as the spec states it: every Response returned by an exchange has a  *)
(* status code in the range 100 to 599; a status line whose second token is *)
(* a decimal outside that range (99, 600, 999) never produces a Response.   *)
C19_StatusCodeWithin100To599 ==
    /\ status # None => status[1].code \in 100..599
    /\ result.kind = "ok" => status # None
    /\ StatusLineProcessed /\ CodeTokenOutside(100, 599) => status = None /\ result.kind = "err"

(* C19 amended: every Response returned by an exchange has a status code in *)
(* the range 100 to 999; a status line whose second token is a decimal      *)
(* outside that range (99 or 1000) never produces a Response.               *)
C19_StatusCodeWithin100To999 ==
    /\ status # None => status[1].code \in 100..999
    /\ result.kind = "ok" => status # None
    /\ StatusLineProcessed /\ CodeTokenOutside(100, 999) => status = None /\ result.kind = "err"

\* a Response with status 999 was returned
C19_Witness ==
    /\ Done /\ result.kind = "ok"
    /\ status # None /\ status[1].code = 999

\* the status line carried 99 and the exchange returned an error
C19_WitnessRejected ==
    /\ Done /\ result.kind = "err" /\ status = None
    /\ StatusLineProcessed
    /\ Len(SplitWhitespace(StatusLine)) >= 2
    /\ SplitWhitespace(StatusLine)[2] = <<"9","9">>

TlsSchemes == {"https", "wss"}

KnownSchemes == {"http", "ws"} \cup TlsSchemes

(* C20: connection establishment resolves (scheme, host, port) from the     *)
(* request URI so that the port is the explicit port when given, else 80    *)
(* for http/ws and 443 for https/wss; TLS is used exactly for https and     *)
(* wss; every URI whose scheme is not one of http, https, ws, wss fails     *)
(* with an error, whether or not it carries an explicit port, as does a URI *)
(* with no authority or no scheme.                                          *)
C20_ConnectResolvesKnownSchemesOnly ==
    LET uri == request.uri
        known == uri.scheme # None /\ uri.scheme[1] \in KnownSchemes
    IN  /\ conn # None =>
              /\ uri.authority # None /\ uri.scheme # None
              /\ conn[1].scheme = uri.scheme[1]
              /\ conn[1].host = uri.authority[1].host
              /\ conn[1].port = IF uri.authority[1].port # None THEN uri.authority[1].port[1]
                                ELSE IF uri.scheme[1] \in TlsSchemes THEN 443 ELSE 80
              /\ conn[1].tls <=> uri.scheme[1] \in TlsSchemes
        /\ pc # "connect" /\ (uri.authority = None \/ ~known) =>
              conn = None /\ Done /\ result.kind = "err"

\* the bytes the reader has not handed out
Unread == SubSeq(stream, pos + 1, Len(stream))

\* the exchange returned the body of a chunked response
ChunkedBodyReturned == Done /\ result.kind = "ok" /\ path = <<"chunked">>

(* C21: read_chunked_body stops consuming the stream as soon as it has read *)
(* a size line whose value is zero: the CRLF that closes the terminal chunk *)
(* and any trailer header lines after it are left unread on the reader when *)
(* the body is returned.                                                    *)
C21_StopsAtZeroSizeLine ==
    /\ ChunkedBodyReturned =>
          /\ ops[Len(ops)] = "read_line"
          /\ Len(ops) % 3 = 1
          /\ pos = Len(stream) \/ stream[pos] = LF
    /\ peer.kind = "chunked" /\ WellFormedChunks(peer.chunks) /\ Done =>
          /\ result.kind = "ok"
          /\ \E e \in ChunkEndings :
                LET before == StatusLineOk200 \o ChunkedHeader \o EncodeChunks(peer.chunks, e.style)
                IN  /\ stream = before \o e.last
                    /\ pos = Len(before) + LineEnd(e.last, 0)
                    /\ Unread = SubSeq(e.last, LineEnd(e.last, 0) + 1, Len(e.last))

\* a chunked body was returned with a trailer line and the final CRLF still unread
C21_Witness ==
    /\ ChunkedBodyReturned
    /\ result.body # <<>>
    /\ Unread = <<"x","-","t",":",SP,"1",CR,LF,CR,LF>>

\* the data of the chunks the peer composed, in order
RECURSIVE ChunkDataOf(_)
ChunkDataOf(cs) == IF cs = <<>> THEN <<>> ELSE Head(cs).data \o ChunkDataOf(Tail(cs))

(* C22: read_chunked_body returns a body only after it has read a size line *)
(* that parses to zero: if the stream closes at a chunk-size line, inside   *)
(* chunk data, or inside the trailing CRLF of a chunk, the result is an     *)
(* error, never a truncated body reported as success.                       *)
C22_ClosedStreamIsNeverSuccess ==
    /\ ChunkedBodyReturned => ops[Len(ops)] = "read_line"
    /\ peer.kind = "cut" /\ Done => result.kind = "err"
    /\ peer.kind = "cut" /\ result.kind = "ok" => result.body = ChunkDataOf(peer.chunks)

\* where the header loop and the chunk-decoding loop stand between iterations
LoopPcs == {"read_headers", "chunk_size_line", "chunk_data", "chunk_crlf"}

(* C23: for every transport whose incoming byte stream is finite and then   *)
(* closes, the response-reading phase of an exchange finishes: the header   *)
(* loop and the chunk-decoding loop each consume at least one byte per      *)
(* iteration or stop, so neither loops forever on any input.                *)
C23_ReadingPhaseFinishes ==
    /\ (pc \in ReadingPcs) ~> Done
    /\ [][(pc \in LoopPcs) => (pos' > pos \/ pc' \notin LoopPcs)]_vars

\* an exchange finished after the header loop and the chunk loop both went
\* round more than once: two chunks decoded, then the zero-size line
C23_Witness ==
    /\ Done
    /\ path = <<"chunked">>
    /\ Len(ConsumedLines) >= 2
    /\ Len(ops) >= 7

\* an exchange finished after the header loop skipped three lines in a row
C23_WitnessSkips ==
    /\ Done
    /\ Len(ConsumedLines) >= 3
    /\ headers = EmptyHeaderMap
    /\ path # <<>>

-----------------------------------------------------------------------------
\* the bytes in the buffer of the reader: taken from the transport, not handed
\* out; they go with the reader when send_request returns
Buffered == SubSeq(stream, pos + 1, fetched)

\* the bytes the connection's stream still holds for its next reader
OnStream == SubSeq(stream, fetched + 1, Len(stream))

(* C24: after send_request returns a response on the upgrade path, every    *)
(* byte the server sent after the blank line that ends the header block is  *)
(* still available to the caller on the connection's stream: none has been  *)
(* taken into the buffered reader of the exchange and discarded with it.    *)
C24_UpgradeLeavesEveryByteOnStream ==
    Done /\ result.kind = "ok" /\ path = <<"upgrade">> =>
        /\ OnStream = BodyBytes
        /\ Buffered = <<>>

====
